---- MODULE Spec2Model ----
(***************************************************************************)
(* Model of the local service supervisor of src-tauri/src/main.rs: the     *)
(* startup task spawned by the setup hook (start_ollama, probe loop,       *)
(* start_backend, probe loop, window.show), the tray and window event      *)
(* handlers that run concurrently with it on the UI context, and the two   *)
(* lock-protected process slots of AppState.                               *)
(***************************************************************************)
EXTENDS Integers, Naturals, Sequences, FiniteSets, TLC

VARIABLES
    platform,        \* <<std::env::consts::OS, std::env::consts::ARCH>> of the build
    target_path,     \* file the build step provisions (build.rs), or BuildErr
    pc,              \* position of the startup task spawned in setup
    binary_path,     \* path computed by get_ollama_path ("" before the call)
    ollama_process,  \* AppState.ollama_process: "None" or "Some"
    backend_process, \* AppState.backend_process: "None" or "Some"
    lock,            \* holder of each slot's tokio Mutex: "free" or "startup"
    children,        \* OS child processes: "none", "running" or "terminated"
    launchOllama,    \* result of start_ollama: "pending", "Ok" or "Err"
    launchBackend,   \* result of start_backend: "pending", "Ok" or "Err"
    nLaunches,       \* number of spawn() calls made per service
    attempt,         \* loop counter of the probe loop in progress (0..30)
    lastResp,        \* response of the last health probe (NoProbe before any)
    lastAlive,       \* value of check_*_status().await.unwrap_or(false) for it
    nProbes,         \* number of health probes issued per service
    nSleeps,         \* number of one-second sleeps taken per service
    windowExists,    \* the "main" window has not been destroyed
    visible,         \* the "main" window is shown
    seqShown,        \* the startup task has called window.show()
    everVisible,     \* the window was visible at some point of the run
    exited,          \* the supervisor process has exited
    exitCode,        \* its exit status (meaningful when exited)
    exitBy           \* who ended it: "none", "quit", "startup" or "panic"

vars == <<platform, target_path, nLaunches, pc, binary_path, ollama_process, backend_process, lock,
          children, launchOllama, launchBackend, attempt, lastResp, lastAlive,
          nProbes, nSleeps, windowExists, visible, seqShown, everVisible,
          exited, exitCode, exitBy>>

Services == {"ollama", "backend"}

\* for _ in 0..30  (both probe loops)
MaxProbeAttempts == 30

\* exit statuses: app.exit(0), app_handle.exit(1), Rust's status of a panic
\* that unwinds out of the main thread
ExitQuit == 0
ExitFailure == 1
ExitPanic == 101

\* Platforms the program may be built for: the pairs named by the arms of
\* get_ollama_path and get_platform_info, both architectures for the
\* ("windows", _) arm, and pairs that fall to the last arm (an unknown OS, a
\* known OS with another architecture).
Platforms == {<<"macos", "aarch64">>, <<"macos", "x86_64">>,
              <<"linux", "aarch64">>, <<"linux", "x86_64">>,
              <<"windows", "x86_64">>, <<"windows", "aarch64">>,
              <<"freebsd", "x86_64">>, <<"linux", "riscv64">>,
              <<"macos", "x86">>}

Unsupported == "panic"

\* get_ollama_path: the match on (os, arch); Unsupported stands for the panic
get_ollama_path(os, arch) ==
    CASE os = "macos" /\ arch = "aarch64" -> "binaries/ollama-aarch64-apple-darwin"
      [] os = "macos" /\ arch = "x86_64" -> "binaries/ollama-x86_64-apple-darwin"
      [] os = "linux" /\ arch = "aarch64" -> "binaries/ollama-aarch64-unknown-linux"
      [] os = "linux" /\ arch = "x86_64" -> "binaries/ollama-x86_64-unknown-linux"
      [] os = "windows" -> "binaries/ollama.exe"
      [] OTHER -> Unsupported

\* Variant of get_platform_info: the linux/aarch64 file is named after the
\* download ("arm64") instead of after the target triple.
get_platform_info_arm64(os, arch) ==
    CASE os = "macos" /\ arch = "aarch64" ->
           [ok |-> TRUE, os_name |-> "darwin", arch_name |-> "aarch64",
            filename |-> "ollama-aarch64-apple-darwin",
            download_filename |-> "ollama-darwin-aarch64"]
      [] os = "macos" /\ arch = "x86_64" ->
           [ok |-> TRUE, os_name |-> "darwin", arch_name |-> "x86_64",
            filename |-> "ollama-x86_64-apple-darwin",
            download_filename |-> "ollama-darwin-amd64"]
      [] os = "linux" /\ arch = "aarch64" ->
           [ok |-> TRUE, os_name |-> "linux", arch_name |-> "aarch64",
            filename |-> "ollama-arm64-unknown-linux",
            download_filename |-> "ollama-linux-arm64"]
      [] os = "linux" /\ arch = "x86_64" ->
           [ok |-> TRUE, os_name |-> "linux", arch_name |-> "x86_64",
            filename |-> "ollama-x86_64-unknown-linux",
            download_filename |-> "ollama-linux-amd64"]
      [] os = "windows" ->
           [ok |-> TRUE, os_name |-> "windows", arch_name |-> arch,
            filename |-> "ollama.exe",
            download_filename |-> "ollama.exe"]
      [] OTHER ->
           [ok |-> FALSE, os_name |-> "", arch_name |-> "",
            filename |-> "", download_filename |-> ""]

\* build.rs, get_platform_info: (os_name, arch_name, filename,
\* download_filename) for the platform, or Err("Unsupported platform")
get_platform_info(os, arch) ==
    CASE os = "macos" /\ arch = "aarch64" ->
           [ok |-> TRUE, os_name |-> "darwin", arch_name |-> "aarch64",
            filename |-> "ollama-aarch64-apple-darwin",
            download_filename |-> "ollama-darwin-aarch64"]
      [] os = "macos" /\ arch = "x86_64" ->
           [ok |-> TRUE, os_name |-> "darwin", arch_name |-> "x86_64",
            filename |-> "ollama-x86_64-apple-darwin",
            download_filename |-> "ollama-darwin-amd64"]
      [] os = "linux" /\ arch = "aarch64" ->
           [ok |-> TRUE, os_name |-> "linux", arch_name |-> "aarch64",
            filename |-> "ollama-aarch64-unknown-linux",
            download_filename |-> "ollama-linux-arm64"]
      [] os = "linux" /\ arch = "x86_64" ->
           [ok |-> TRUE, os_name |-> "linux", arch_name |-> "x86_64",
            filename |-> "ollama-x86_64-unknown-linux",
            download_filename |-> "ollama-linux-amd64"]
      [] os = "windows" ->
           [ok |-> TRUE, os_name |-> "windows", arch_name |-> arch,
            filename |-> "ollama.exe",
            download_filename |-> "ollama.exe"]
      [] OTHER ->
           [ok |-> FALSE, os_name |-> "", arch_name |-> "",
            filename |-> "", download_filename |-> ""]

BuildErr == "Err"

\* build.rs, download_ollama: the ? on get_platform_info() returns its Err;
\* otherwise the binary is provisioned at binary_dir.join(filename), where
\* binary_dir is the directory "binaries" of the manifest directory (the
\* path is given relative to that directory).
download_ollama(os, arch) ==
    LET info == get_platform_info(os, arch) IN
      IF info.ok THEN "binaries/" \o info.filename ELSE BuildErr

\* Outcomes of reqwest::get: no response at all (timeout, refused connection,
\* DNS failure), or a response with an HTTP status.
NoResponse == 0
NoProbe == -1
Statuses == {200, 304, 404, 503}
Responses == {NoResponse} \cup Statuses

\* Variant of is_success: any status counts, as if the probe only asked
\* whether a response was received.
is_success_any(status) == TRUE

\* StatusCode::is_success: 200 <= status < 300
is_success(status) == status >= 200 /\ status < 300

\* check_ollama_status / check_backend_status: Err when reqwest::get fails,
\* otherwise Ok(response.status().is_success())
check_status(resp) ==
    IF resp = NoResponse THEN [ok |-> FALSE, val |-> FALSE]
    ELSE [ok |-> TRUE, val |-> is_success(resp)]

\* Result<bool, String>::unwrap_or(default)
unwrap_or(res, default) == IF res.ok THEN res.val ELSE default

\* the condition of the if in both probe loops
probe_alive(resp) == unwrap_or(check_status(resp), FALSE)

\* .manage(AppState { None, None }); the setup hook has spawned the startup
\* task, which has not run yet; the window is created hidden and is revealed
\* by window.show(). The build script has run for the same platform before.
Init ==
    /\ platform \in Platforms
    /\ target_path = download_ollama(platform[1], platform[2])
    /\ nLaunches = [s \in Services |-> 0]
    /\ pc = "start"
    /\ binary_path = ""
    /\ ollama_process = "None"
    /\ backend_process = "None"
    /\ lock = [s \in Services |-> "free"]
    /\ children = [s \in Services |-> "none"]
    /\ launchOllama = "pending"
    /\ launchBackend = "pending"
    /\ attempt = 0
    /\ lastResp = NoProbe
    /\ lastAlive = FALSE
    /\ nProbes = [s \in Services |-> 0]
    /\ nSleeps = [s \in Services |-> 0]
    /\ windowExists = TRUE
    /\ visible = FALSE
    /\ seqShown = FALSE
    /\ everVisible = FALSE
    /\ exited = FALSE
    /\ exitCode = ExitQuit
    /\ exitBy = "none"

uiVars == <<windowExists, visible, seqShown, everVisible>>
exitVars == <<exited, exitCode, exitBy>>
registryVars == <<ollama_process, backend_process, lock>>
probeVars == <<attempt, lastResp, lastAlive, nProbes, nSleeps>>
launchVars == <<launchOllama, launchBackend, children, binary_path, nLaunches>>

(***************************************************************************)
(* The startup task: tauri::async_runtime::spawn(async move { ... })       *)
(***************************************************************************)

\* Variant of CallStartOllama: the task calls start_backend first, as it would
\* if the two launches were written in the wrong order.
CallStartBackendFirst ==
    /\ ~exited
    /\ pc = "start"
    /\ pc' = "launchB"
    /\ UNCHANGED <<platform, target_path, binary_path, registryVars, children, launchOllama,
                   launchBackend, nLaunches, probeVars, uiVars, exitVars>>

\* start_ollama, up to Command::new(binary_path): get_ollama_path() either
\* returns the path or panics, which ends the task (the runtime catches the
\* panic of a spawned task; the supervisor keeps running).
CallStartOllama ==
    /\ ~exited
    /\ pc = "start"
    /\ LET path == get_ollama_path(platform[1], platform[2]) IN
         IF path = Unsupported
         THEN /\ pc' = "panicked"
              /\ UNCHANGED binary_path
         ELSE /\ pc' = "launchA"
              /\ binary_path' = path
    /\ UNCHANGED <<platform, target_path, registryVars, children, launchOllama, launchBackend,
                   nLaunches, probeVars, uiVars, exitVars>>

\* Variant of SpawnOllama: the Err arm falls through to the launch of the
\* backend instead of ending the sequence.
SpawnOllamaProceeds ==
    /\ ~exited
    /\ pc = "launchA"
    /\ nLaunches' = [nLaunches EXCEPT !["ollama"] = @ + 1]
    /\ \E ok \in BOOLEAN :
         IF ok
         THEN /\ children' = [children EXCEPT !["ollama"] = "running"]
              /\ launchOllama' = "Ok"
              /\ pc' = "lockA"
         ELSE /\ launchOllama' = "Err"
              /\ pc' = "launchB"
              /\ UNCHANGED children
    /\ UNCHANGED <<platform, target_path, binary_path, registryVars, launchBackend,
                   probeVars, uiVars, exitVars>>

\* start_ollama: Command::new(binary_path).spawn() and the return of the
\* call; the match in the task takes the Ok or the Err arm.
SpawnOllama ==
    /\ ~exited
    /\ pc = "launchA"
    /\ nLaunches' = [nLaunches EXCEPT !["ollama"] = @ + 1]
    /\ \E ok \in BOOLEAN :
         IF ok
         THEN /\ children' = [children EXCEPT !["ollama"] = "running"]
              /\ launchOllama' = "Ok"
              /\ pc' = "lockA"
         ELSE /\ launchOllama' = "Err"
              /\ pc' = "failA"
              /\ UNCHANGED children
    /\ UNCHANGED <<platform, target_path, binary_path, registryVars, launchBackend,
                   probeVars, uiVars, exitVars>>

\* state.ollama_process.lock().await
LockOllama ==
    /\ ~exited
    /\ pc = "lockA"
    /\ lock["ollama"] = "free"
    /\ lock' = [lock EXCEPT !["ollama"] = "startup"]
    /\ pc' = "storeA"
    /\ UNCHANGED <<platform, target_path, ollama_process, backend_process, launchVars,
                   probeVars, uiVars, exitVars>>

\* Variant of StoreOllama: the guard is bound to a variable that lives on, so
\* the lock stays held during the probe loop.
StoreOllamaKeepsGuard ==
    /\ ~exited
    /\ pc = "storeA"
    /\ lock["ollama"] = "startup"
    /\ ollama_process' = "Some"
    /\ attempt' = 0
    /\ pc' = "probeA"
    /\ UNCHANGED <<platform, target_path, backend_process, lock, launchVars, lastResp,
                   lastAlive, nProbes, nSleeps, uiVars, exitVars>>

\* Variant of StoreOllama: the handle is dropped instead of being stored.
StoreOllamaDropsHandle ==
    /\ ~exited
    /\ pc = "storeA"
    /\ lock["ollama"] = "startup"
    /\ lock' = [lock EXCEPT !["ollama"] = "free"]
    /\ attempt' = 0
    /\ pc' = "probeA"
    /\ UNCHANGED <<platform, target_path, ollama_process, backend_process, launchVars,
                   lastResp, lastAlive, nProbes, nSleeps, uiVars, exitVars>>

\* *guard = Some(ollama_process); the guard is a temporary of the statement
\* and is dropped at its end. The previous value of the slot is dropped
\* without being killed (dropping a std::process::Child does not end it).
\* Then the first iteration of for _ in 0..30 begins.
StoreOllama ==
    /\ ~exited
    /\ pc = "storeA"
    /\ lock["ollama"] = "startup"
    /\ ollama_process' = "Some"
    /\ lock' = [lock EXCEPT !["ollama"] = "free"]
    /\ attempt' = 0
    /\ pc' = "probeA"
    /\ UNCHANGED <<platform, target_path, backend_process, launchVars, lastResp, lastAlive,
                   nProbes, nSleeps, uiVars, exitVars>>

\* Variant of Probe: the result of the check is unwrapped, so that a probe
\* without response panics the task instead of counting as not alive.
ProbeUnwrap(svc, here, sleep, next) ==
    /\ ~exited
    /\ pc = here
    /\ attempt < MaxProbeAttempts
    /\ \E resp \in Responses :
         /\ lastResp' = resp
         /\ lastAlive' = probe_alive(resp)
         /\ pc' = IF ~check_status(resp).ok THEN "panicked"
                  ELSE IF probe_alive(resp) THEN next ELSE sleep
    /\ nProbes' = [nProbes EXCEPT ![svc] = @ + 1]
    /\ UNCHANGED <<platform, target_path, registryVars, launchVars, attempt, nSleeps,
                   uiVars, exitVars>>

\* Variant of Probe: the loop is left after the first probe whatever it
\* answered (the break is not under the if).
ProbeBreaksAlways(svc, here, sleep, next) ==
    /\ ~exited
    /\ pc = here
    /\ attempt < MaxProbeAttempts
    /\ \E resp \in Responses :
         /\ lastResp' = resp
         /\ lastAlive' = probe_alive(resp)
         /\ pc' = next
    /\ nProbes' = [nProbes EXCEPT ![svc] = @ + 1]
    /\ UNCHANGED <<platform, target_path, registryVars, launchVars, attempt, nSleeps,
                   uiVars, exitVars>>

\* Variant of Probe: the sleep is taken before the result of the probe is
\* looked at, so an alive service is still waited for.
ProbeSleepsOnAlive(svc, here, sleep, next) ==
    /\ ~exited
    /\ pc = here
    /\ attempt < MaxProbeAttempts
    /\ \E resp \in Responses :
         /\ lastResp' = resp
         /\ lastAlive' = probe_alive(resp)
         /\ pc' = sleep
    /\ nProbes' = [nProbes EXCEPT ![svc] = @ + 1]
    /\ UNCHANGED <<platform, target_path, registryVars, launchVars, attempt, nSleeps,
                   uiVars, exitVars>>

\* One iteration of a probe loop up to its if: check_*_status().await
\* .unwrap_or(false); break when true, otherwise go on to the sleep.
Probe(svc, here, sleep, next) ==
    /\ ~exited
    /\ pc = here
    /\ attempt < MaxProbeAttempts
    /\ \E resp \in Responses :
         /\ lastResp' = resp
         /\ lastAlive' = probe_alive(resp)
         /\ pc' = IF probe_alive(resp) THEN next ELSE sleep
    /\ nProbes' = [nProbes EXCEPT ![svc] = @ + 1]
    /\ UNCHANGED <<platform, target_path, registryVars, launchVars, attempt, nSleeps,
                   uiVars, exitVars>>

\* Variant of Sleep: a service that never reported alive within the attempts
\* is treated as a startup failure.
SleepFailsOnExhaustion(svc, here, probe, next) ==
    /\ ~exited
    /\ pc = here
    /\ nSleeps' = [nSleeps EXCEPT ![svc] = @ + 1]
    /\ attempt' = attempt + 1
    /\ pc' = IF attempt + 1 < MaxProbeAttempts THEN probe
             ELSE IF svc = "ollama" THEN "failA" ELSE "failB"
    /\ UNCHANGED <<platform, target_path, registryVars, launchVars, lastResp, lastAlive,
                   nProbes, uiVars, exitVars>>

\* Variant of Sleep: a service that never reported alive is launched again.
SleepRelaunchOnExhaustion(svc, here, probe, next) ==
    /\ ~exited
    /\ pc = here
    /\ nSleeps' = [nSleeps EXCEPT ![svc] = @ + 1]
    /\ attempt' = attempt + 1
    /\ pc' = IF attempt + 1 < MaxProbeAttempts THEN probe
             ELSE IF svc = "ollama" THEN "launchA" ELSE "launchB"
    /\ UNCHANGED <<platform, target_path, registryVars, launchVars, lastResp, lastAlive,
                   nProbes, uiVars, exitVars>>

\* Variant of Sleep: the loop does not count its iterations (a loop without
\* the 0..30 range).
SleepNoCount(svc, here, probe, next) ==
    /\ ~exited
    /\ pc = here
    /\ nSleeps' = [nSleeps EXCEPT ![svc] = @ + 1]
    /\ attempt' = attempt
    /\ pc' = IF attempt + 1 < MaxProbeAttempts THEN probe ELSE next
    /\ UNCHANGED <<platform, target_path, registryVars, launchVars, lastResp, lastAlive,
                   nProbes, uiVars, exitVars>>

\* tokio::time::sleep(Duration::from_secs(1)).await and the step of the for
\* loop: the next iteration, or the end of the loop after the 30th.
Sleep(svc, here, probe, next) ==
    /\ ~exited
    /\ pc = here
    /\ nSleeps' = [nSleeps EXCEPT ![svc] = @ + 1]
    /\ attempt' = attempt + 1
    /\ pc' = IF attempt + 1 < MaxProbeAttempts THEN probe ELSE next
    /\ UNCHANGED <<platform, target_path, registryVars, launchVars, lastResp, lastAlive,
                   nProbes, uiVars, exitVars>>

ProbeOllama == Probe("ollama", "probeA", "sleepA", "launchB")

SleepOllama == Sleep("ollama", "sleepA", "probeA", "launchB")

\* start_backend: Command::new("python3")...spawn() and the return of the call
SpawnBackend ==
    /\ ~exited
    /\ pc = "launchB"
    /\ nLaunches' = [nLaunches EXCEPT !["backend"] = @ + 1]
    /\ \E ok \in BOOLEAN :
         IF ok
         THEN /\ children' = [children EXCEPT !["backend"] = "running"]
              /\ launchBackend' = "Ok"
              /\ pc' = "lockB"
         ELSE /\ launchBackend' = "Err"
              /\ pc' = "failB"
              /\ UNCHANGED children
    /\ UNCHANGED <<platform, target_path, binary_path, registryVars, launchOllama,
                   probeVars, uiVars, exitVars>>

\* state.backend_process.lock().await
LockBackend ==
    /\ ~exited
    /\ pc = "lockB"
    /\ lock["backend"] = "free"
    /\ lock' = [lock EXCEPT !["backend"] = "startup"]
    /\ pc' = "storeB"
    /\ UNCHANGED <<platform, target_path, ollama_process, backend_process, launchVars,
                   probeVars, uiVars, exitVars>>

\* *guard = Some(backend_process), guard dropped, second probe loop begins
StoreBackend ==
    /\ ~exited
    /\ pc = "storeB"
    /\ lock["backend"] = "startup"
    /\ backend_process' = "Some"
    /\ lock' = [lock EXCEPT !["backend"] = "free"]
    /\ attempt' = 0
    /\ pc' = "probeB"
    /\ UNCHANGED <<platform, target_path, ollama_process, launchVars, lastResp, lastAlive,
                   nProbes, nSleeps, uiVars, exitVars>>

ProbeBackend == Probe("backend", "probeB", "sleepB", "show")

SleepBackend == Sleep("backend", "sleepB", "probeB", "show")

\* if let Some(window) = app_handle.get_window("main") { window.show() };
\* the task then ends.
ShowWindow ==
    /\ ~exited
    /\ pc = "show"
    /\ IF windowExists
       THEN /\ visible' = TRUE
            /\ seqShown' = TRUE
            /\ everVisible' = TRUE
       ELSE UNCHANGED <<visible, seqShown, everVisible>>
    /\ pc' = "done"
    /\ UNCHANGED <<platform, target_path, registryVars, launchVars, probeVars, windowExists,
                   exitVars>>

\* Variant of FailExit: the Err arms run the startup sequence again instead
\* of ending the application.
FailExitRetries ==
    /\ ~exited
    /\ pc \in {"failA", "failB"}
    /\ pc' = "start"
    /\ UNCHANGED <<platform, target_path, registryVars, launchVars, probeVars, uiVars,
                   exitVars>>

\* Variant of FailExit: the Err arms end the application with status 0.
FailExitZero ==
    /\ ~exited
    /\ pc \in {"failA", "failB"}
    /\ exited' = TRUE
    /\ exitCode' = ExitQuit
    /\ exitBy' = "startup"
    /\ pc' = "exited"
    /\ UNCHANGED <<platform, target_path, registryVars, launchVars, probeVars, uiVars>>

\* The Err arms: eprintln!; app_handle.exit(1). Nothing is done to the slots
\* or to the children before the process exits.
FailExit ==
    /\ ~exited
    /\ pc \in {"failA", "failB"}
    /\ exited' = TRUE
    /\ exitCode' = ExitFailure
    /\ exitBy' = "startup"
    /\ pc' = "exited"
    /\ UNCHANGED <<platform, target_path, registryVars, launchVars, probeVars, uiVars>>

(***************************************************************************)
(* The event handlers of the UI context                                    *)
(***************************************************************************)

\* on_system_tray_event, "quit": app.exit(0). The slots of AppState are not
\* read and no child is killed.
TrayQuit ==
    /\ ~exited
    /\ exited' = TRUE
    /\ exitCode' = ExitQuit
    /\ exitBy' = "quit"
    /\ UNCHANGED <<platform, target_path, pc, registryVars, launchVars, probeVars, uiVars>>

\* Variant of TrayOpen: the handler also takes the handle out of the ollama
\* slot.
TrayOpenTakesHandle ==
    /\ ~exited
    /\ windowExists
    /\ visible' = TRUE
    /\ everVisible' = TRUE
    /\ ollama_process' = "None"
    /\ UNCHANGED <<platform, target_path, pc, backend_process, lock, launchVars, probeVars,
                   windowExists, seqShown, exitVars>>

\* on_system_tray_event, "open": app.get_window("main").unwrap() panics on
\* the UI thread when there is no window; otherwise window.show().
TrayOpen ==
    /\ ~exited
    /\ IF windowExists
       THEN /\ visible' = TRUE
            /\ everVisible' = TRUE
            /\ UNCHANGED exitVars
       ELSE /\ exited' = TRUE
            /\ exitCode' = ExitPanic
            /\ exitBy' = "panic"
            /\ UNCHANGED <<visible, everVisible>>
    /\ UNCHANGED <<platform, target_path, pc, registryVars, launchVars, probeVars,
                   windowExists, seqShown>>

\* Variant of CloseRequested: api.prevent_close() is missing, so the default
\* close destroys the window.
CloseRequestedNoPrevent ==
    /\ ~exited
    /\ windowExists
    /\ visible' = FALSE
    /\ windowExists' = FALSE
    /\ UNCHANGED <<platform, target_path, pc, registryVars, launchVars, probeVars,
                   seqShown, everVisible, exitVars>>

\* on_window_event, CloseRequested: event.window().hide();
\* api.prevent_close() keeps the window from being destroyed.
CloseRequested ==
    /\ ~exited
    /\ windowExists
    /\ visible' = FALSE
    /\ windowExists' = windowExists
    /\ UNCHANGED <<platform, target_path, pc, registryVars, launchVars, probeVars,
                   seqShown, everVisible, exitVars>>

StartupTask ==
    \/ CallStartOllama
    \/ SpawnOllama
    \/ LockOllama
    \/ StoreOllama
    \/ ProbeOllama
    \/ SleepOllama
    \/ SpawnBackend
    \/ LockBackend
    \/ StoreBackend
    \/ ProbeBackend
    \/ SleepBackend
    \/ ShowWindow
    \/ FailExit

Next ==
    \/ StartupTask
    \/ TrayQuit
    \/ TrayOpen
    \/ CloseRequested

Spec == Init /\ [][Next]_vars

\* The startup task is scheduled by the async runtime until it ends or the
\* process exits.
FairSpec == Spec /\ WF_vars(StartupTask)

\* SequencerState of the startup task, read off its position. A task that
\* panicked inside start_ollama (get_ollama_path) makes no further
\* transition: it stays in LaunchingA.
SequencerState ==
    CASE pc = "start" -> "NotStarted"
      [] pc \in {"launchA", "lockA", "storeA"} -> "LaunchingA"
      [] pc \in {"probeA", "sleepA"} -> "ProbingA"
      [] pc \in {"launchB", "lockB", "storeB"} -> "LaunchingB"
      [] pc \in {"probeB", "sleepB", "show"} -> "ProbingB"
      [] pc = "done" -> "Ready"
      [] pc \in {"failA", "failB"} -> "Failed"
      [] pc = "exited" -> "Failed"
      [] pc = "panicked" -> "LaunchingA"

(***************************************************************************)
(* Properties                                                              *)
(***************************************************************************)

\* C1: when the tray "quit" event has ended the supervisor, the registry is
\* empty and no child whose handle was registered is still running.
C1_QuitTerminatesRegistered ==
    (exited /\ exitBy = "quit") =>
        /\ ollama_process = "None"
        /\ backend_process = "None"
        /\ \A s \in Services : children[s] # "running"

\* C2: the main window is visible only once the sequencer has reached Ready,
\* whatever tray and window events are interleaved with the startup task.
C2_VisibleOnlyWhenReady ==
    visible => SequencerState = "Ready"

\* C3: start_backend is never called before the call of start_ollama has
\* returned: whenever the task is in or past the launch of service B, the
\* launch of service A has returned (with Ok).
C3_BackendAfterOllamaReturned ==
    (\/ pc \in {"launchB", "lockB", "storeB", "probeB", "sleepB", "show",
                "done", "failB"}
     \/ launchBackend # "pending"
     \/ children["backend"] # "none")
        => launchOllama = "Ok"

\* C3 witness: service B is being launched while tray events have been
\* handled concurrently (the window was opened from the tray).
C3_Witness ==
    /\ pc = "launchB"
    /\ launchOllama = "Ok"
    /\ visible
    /\ ~seqShown

\* C4: once start_backend has returned Err the sequencer is Failed, the
\* window has not been visible at any point of the execution, and an exit
\* of the application has a non-zero status.
C4_BackendFailureNeverShows ==
    launchBackend = "Err" =>
        /\ SequencerState = "Failed"
        /\ ~everVisible
        /\ (exited => exitCode # ExitQuit)

\* The probe loop of a service has ended with the given numbers of probes
\* and sleeps and never saw the service alive.
NeverAlive(svc) ==
    /\ nProbes[svc] = MaxProbeAttempts
    /\ nSleeps[svc] = MaxProbeAttempts

\* C5: provided both launches succeeded the sequencer is never Failed; it
\* ends in Ready with the window revealed by the startup task, whatever the
\* probes answered; and under fair scheduling of the task it gets there
\* unless the supervisor is ended first.
C5_ReadyWhateverProbes ==
    /\ [](launchBackend = "Ok" =>
            /\ launchOllama = "Ok"
            /\ SequencerState \in {"LaunchingB", "ProbingB", "Ready"}
            /\ (SequencerState = "Ready" => seqShown))
    /\ [][(pc = "show" /\ pc' # pc) => (pc' = "done" /\ visible' /\ seqShown')]_vars
    /\ ((launchBackend = "Ok") ~> (SequencerState = "Ready" \/ exited))

\* C5 witness: Ready is reached, window visible, although neither service
\* ever reported alive in its 30 probes.
C5_Witness ==
    /\ SequencerState = "Ready"
    /\ visible
    /\ seqShown
    /\ NeverAlive("ollama")
    /\ NeverAlive("backend")
    /\ ~exited

\* C6 as stated: once start_ollama has returned Err the sequencer is Failed,
\* service B is never launched, no probe is issued, no handle is stored, the
\* startup task does not reveal the window, and an exit of the application
\* has a non-zero status.
C6_OllamaFailureExitsNonZero ==
    launchOllama = "Err" =>
        /\ SequencerState = "Failed"
        /\ launchBackend = "pending"
        /\ \A s \in Services : children[s] = "none" /\ nProbes[s] = 0
        /\ ollama_process = "None" /\ backend_process = "None"
        /\ ~seqShown
        /\ (exited => exitCode # ExitQuit)

\* C6 amended: as above, but the exit has status 1 when the startup task
\* performs it, and status 0 when a tray quit ends the process first.
C6_OllamaFailureStops ==
    launchOllama = "Err" =>
        /\ SequencerState = "Failed"
        /\ pc \in {"failA", "exited"}
        /\ launchBackend = "pending"
        /\ \A s \in Services : children[s] = "none" /\ nProbes[s] = 0
        /\ ollama_process = "None" /\ backend_process = "None"
        /\ ~seqShown
        /\ (exited => \/ exitBy = "startup" /\ exitCode = ExitFailure /\ pc = "exited"
                      \/ exitBy = "quit" /\ exitCode = ExitQuit /\ pc = "failA")

\* C6 witness: the launch of service A failed and the startup task has ended
\* the application.
C6_Witness ==
    /\ launchOllama = "Err"
    /\ exited
    /\ exitBy = "startup"
    /\ exitCode = ExitFailure

C8_NetworkFailureNotAlive ==
    /\ [][(nProbes' # nProbes /\ lastResp' = NoResponse) =>
            /\ ~lastAlive'
            /\ pc' = (IF pc = "probeA" THEN "sleepA" ELSE "sleepB")
            /\ exited' = exited]_vars
    /\ [][(pc = "sleepA" /\ pc' # pc) =>
            pc' = (IF attempt' < MaxProbeAttempts THEN "probeA" ELSE "launchB")]_vars
    /\ [][(pc = "sleepB" /\ pc' # pc) =>
            pc' = (IF attempt' < MaxProbeAttempts THEN "probeB" ELSE "show")]_vars

\* C8 witness: the last of the 30 probes of service A got no response and
\* the task is launching service B.
C8_Witness ==
    /\ pc = "launchB"
    /\ lastResp = NoResponse
    /\ NeverAlive("ollama")

\* C9: the window is never destroyed, and a close-request leaves it hidden
\* and leaves the registry slots and the children as they were.
C9_CloseHidesOnly ==
    /\ []windowExists
    /\ [][CloseRequested =>
            /\ ~visible'
            /\ windowExists'
            /\ UNCHANGED <<ollama_process, backend_process, lock, children>>
            /\ UNCHANGED <<pc, exited>>]_vars

\* C9 witness: the window was visible and has been hidden again (only a
\* close-request hides it) while both children run and are registered.
C9_Witness ==
    /\ everVisible
    /\ ~visible
    /\ windowExists
    /\ ~exited
    /\ ollama_process = "Some" /\ backend_process = "Some"
    /\ children = [s \in Services |-> "running"]

\* C10: a tray "open" makes the window visible and changes neither the
\* registry slots, nor a child, nor the position (state) of the sequencer.
C10_OpenShowsOnly ==
    [][TrayOpen =>
        /\ visible'
        /\ UNCHANGED <<ollama_process, backend_process, lock, children>>
        /\ UNCHANGED <<pc, launchOllama, launchBackend, probeVars, exitVars>>]_vars

\* C10 witness: the window was opened from the tray during the probing of
\* service A, whose handle is registered.
C10_Witness ==
    /\ visible
    /\ ~seqShown
    /\ pc = "probeA"
    /\ ollama_process = "Some"
    /\ children["ollama"] = "running"

\* C11: an exit of the supervisor has status 0 exactly when the tray quit
\* performed it and status 1 exactly when the startup task performed it
\* after a launch failure, also when a quit arrives after a launch has
\* failed and before the task has called exit.
C11_ExitStatusByCause ==
    exited =>
        /\ exitBy \in {"quit", "startup"}
        /\ (exitCode = ExitQuit <=> exitBy = "quit")
        /\ (exitCode = ExitFailure <=> exitBy = "startup")
        /\ (exitBy = "startup" <=> pc = "exited")
        /\ (exitBy = "startup" => (launchOllama = "Err" \/ launchBackend = "Err"))

\* C11 witness: a tray quit ended the supervisor after start_backend had
\* failed and before the task called exit(1): the status is 0.
C11_Witness ==
    /\ exited
    /\ exitBy = "quit"
    /\ exitCode = ExitQuit
    /\ launchBackend = "Err"
    /\ pc = "failB"

\* The startup task is in or past the call of start_backend.
PastProbingOllama ==
    \/ pc \in {"launchB", "lockB", "storeB", "probeB", "sleepB", "show",
               "done", "failB"}
    \/ nLaunches["backend"] > 0

\* C12: service B is launched only after the probing of service A has
\* ended, by a probe that reported alive or by the use of all 30 attempts,
\* and service A is not probed again from the call of start_backend on.
C12_BackendAfterProbingOllama ==
    /\ [](PastProbingOllama =>
            \/ /\ nProbes["ollama"] >= 1
               /\ nProbes["ollama"] = nSleeps["ollama"] + 1
            \/ NeverAlive("ollama"))
    /\ []((pc = "launchB" /\ nProbes["ollama"] = nSleeps["ollama"] + 1)
            => (lastAlive /\ lastResp \in 200..299))
    /\ [](pc \in {"probeA", "sleepA"} => nLaunches["backend"] = 0)
    /\ [][PastProbingOllama =>
            (nProbes'["ollama"] = nProbes["ollama"]
             /\ nSleeps'["ollama"] = nSleeps["ollama"])]_vars

\* C12 witness: service B has been spawned after service A reported alive
\* on its third probe.
C12_Witness ==
    /\ nLaunches["backend"] = 1
    /\ launchBackend = "Ok"
    /\ nProbes["ollama"] = 3
    /\ nSleeps["ollama"] = 2

\* C13: per service at most 30 probes are issued, every probe that reports
\* not alive is followed by one sleep and a probe that reports alive ends
\* the loop; a loop that never saw the service alive ends after exactly 30
\* probes and 30 sleeps and the task goes on to the next stage.
C13_BoundedPolling ==
    /\ [](\A s \in Services :
            /\ nProbes[s] <= MaxProbeAttempts
            /\ nSleeps[s] <= nProbes[s]
            /\ nProbes[s] <= nSleeps[s] + 1)
    /\ [](pc = "probeA" => nProbes["ollama"] = nSleeps["ollama"])
    /\ [](pc = "probeB" => nProbes["backend"] = nSleeps["backend"])
    /\ []((pc = "launchB" /\ ~lastAlive) => NeverAlive("ollama"))
    /\ []((pc = "show" /\ ~lastAlive) => NeverAlive("backend"))
    /\ [][nProbes' # nProbes =>
            /\ (lastAlive' => pc' = (IF pc = "probeA" THEN "launchB" ELSE "show"))
            /\ (~lastAlive' => pc' = (IF pc = "probeA" THEN "sleepA" ELSE "sleepB"))]_vars
    /\ [][nSleeps' # nSleeps =>
            /\ pc \in {"sleepA", "sleepB"}
            /\ ~lastAlive
            /\ \A s \in Services : nSleeps'[s] <= nSleeps[s] + 1]_vars

\* C13 witness: neither service ever reported alive; 30 probes and 30 sleeps
\* were spent on each and the task is about to reveal the window.
C13_Witness ==
    /\ pc = "show"
    /\ ~lastAlive
    /\ \A s \in Services : nProbes[s] = MaxProbeAttempts /\ nSleeps[s] = MaxProbeAttempts

\* C14 as stated: when service A first reports alive on its k-th probe, the
\* task has slept k probe intervals before it advances.
C14_WaitedAsManyAsProbes ==
    (pc = "launchB" /\ lastAlive) => nSleeps["ollama"] = nProbes["ollama"]

\* C14 amended: when service A first reports alive on its k-th probe, the
\* task has slept k - 1 probe intervals (one after each probe that reported
\* not alive); it goes from that probe straight to start_backend, which is
\* called exactly once, with no sleep and no probe of A in between.
C14_WaitedOneLessThanProbes ==
    /\ []((pc = "launchB" /\ lastAlive) =>
            /\ nSleeps["ollama"] = nProbes["ollama"] - 1
            /\ nLaunches["backend"] = 0)
    /\ [](nLaunches["backend"] <= 1)
    /\ [][(pc = "probeA" /\ nProbes' # nProbes /\ lastAlive') =>
            (pc' = "launchB" /\ nSleeps' = nSleeps)]_vars
    /\ [][(pc = "launchB" /\ pc' # pc) =>
            /\ nLaunches'["backend"] = 1
            /\ nProbes' = nProbes
            /\ nSleeps' = nSleeps]_vars

\* C14 witness: service A reported alive on its 2nd probe, one sleep was
\* taken, and start_backend has been called once.
C14_Witness ==
    /\ pc = "lockB"
    /\ lastAlive
    /\ nProbes["ollama"] = 2
    /\ nSleeps["ollama"] = 1
    /\ nLaunches["backend"] = 1

\* C15: the startup task stops only in Ready or Failed: whenever it has no
\* further step to take while the supervisor runs, the sequencer is in one
\* of its two terminal states.
C15_TaskEndsReadyOrFailed ==
    (~exited /\ ~ENABLED StartupTask) => SequencerState \in {"Ready", "Failed"}

\* The transitions of the sequencer that the state machine allows.
SequencerMoves ==
    {<<"NotStarted", "LaunchingA">>, <<"LaunchingA", "ProbingA">>,
     <<"LaunchingA", "Failed">>, <<"ProbingA", "LaunchingB">>,
     <<"LaunchingB", "ProbingB">>, <<"LaunchingB", "Failed">>,
     <<"ProbingB", "Ready">>}

\* C16: the sequencer state changes only along NotStarted, LaunchingA,
\* ProbingA, LaunchingB, ProbingB, Ready, or from a launching state to
\* Failed; nothing leaves Ready or Failed, the task never starts over, and
\* each service is spawned at most once.
C16_MonotonicSequencer ==
    /\ [][SequencerState' # SequencerState =>
            <<SequencerState, SequencerState'>> \in SequencerMoves]_vars
    /\ [][pc # "start" => pc' # "start"]_vars
    /\ [](\A s \in Services : nLaunches[s] <= 1)

\* C16 witness: Ready was reached with one spawn of each service.
C16_Witness ==
    /\ SequencerState = "Ready"
    /\ nLaunches = [s \in Services |-> 1]
    /\ nProbes["ollama"] = 1
    /\ nProbes["backend"] = 1

\* the slot of AppState that belongs to a service
Slot(s) == IF s = "ollama" THEN ollama_process ELSE backend_process

C18_LockOnlyForStore ==
    /\ (lock["ollama"] = "startup" => pc = "storeA")
    /\ (lock["backend"] = "startup" => pc = "storeB")
    /\ (pc \in {"start", "launchA", "probeA", "sleepA", "launchB", "probeB",
                "sleepB", "show"}
          => \A s \in Services : lock[s] = "free")
    /\ (~exited => (ENABLED TrayOpen /\ ENABLED TrayQuit /\ ENABLED CloseRequested))

\* C18 witness: the task holds the lock of the backend slot for the store.
C18_Witness ==
    /\ pc = "storeB"
    /\ lock["backend"] = "startup"
    /\ lock["ollama"] = "free"
    /\ ~exited

\* C19: while the task is in a probe or in a sleep every child it has
\* spawned has its handle in the registry; a service is probed only with
\* its handle stored, and the backend slot is never filled while the ollama
\* slot is empty.
C19_HandlesStoredBeforeProbes ==
    /\ (pc \in {"probeA", "sleepA", "probeB", "sleepB"} =>
          \A s \in Services : children[s] = "running" => Slot(s) = "Some")
    /\ (pc \in {"probeA", "sleepA"} => ollama_process = "Some")
    /\ (pc \in {"probeB", "sleepB"} => backend_process = "Some")
    /\ \A s \in Services : nProbes[s] > 0 => Slot(s) = "Some"
    /\ (backend_process = "Some" => ollama_process = "Some")

\* C19 witness: the task sleeps in the probe loop of the backend with both
\* handles stored.
C19_Witness ==
    /\ pc = "sleepB"
    /\ ollama_process = "Some"
    /\ backend_process = "Some"
    /\ nProbes["backend"] = 1

\* C20: on every platform the path the supervisor launches is the file the
\* build step provisioned in the directory "binaries", and the platform is
\* unsupported for get_ollama_path (panic) exactly when it is unsupported
\* for get_platform_info (Err).
C20_BuildAndRunAgree ==
    /\ (binary_path # "" => binary_path = target_path)
    /\ (target_path = BuildErr <=>
          get_ollama_path(platform[1], platform[2]) = Unsupported)
    /\ (pc = "panicked" => target_path = BuildErr)
    /\ (target_path = BuildErr => (pc \in {"start", "panicked"} /\ binary_path = ""))
    /\ (pc \notin {"start", "panicked"} => binary_path = target_path)

\* C20 witness: on windows/aarch64 (the wildcard arm) the supervisor
\* launches the provisioned binaries/ollama.exe.
C20_Witness ==
    /\ platform = <<"windows", "aarch64">>
    /\ pc = "launchA"
    /\ binary_path = "binaries/ollama.exe"
    /\ target_path = binary_path

====
